---- MODULE Spec2Model ----
(***************************************************************************)
(* A model of task.py: the two hand-written sorts (insertion_sort,         *)
(* merge_sort with its merge step), the benchmark runner, the comparison   *)
(* driver and the curve scaler.                                            *)
(*                                                                         *)
(* Python lists are mutable objects that are passed by reference, so the   *)
(* model keeps a heap: a sequence of list objects, a reference being an    *)
(* index into it.  Every function of the program is an operator that takes *)
(* a heap and references and gives back the heap it leaves and the         *)
(* reference it returns, computed loop by loop as the code computes it.    *)
(* A list element is a record [key, id]: the comparisons of the code       *)
(* (<, <=) look at key only, id is the identity of the object, which is    *)
(* what tells two equal elements apart.                                    *)
(***************************************************************************)
EXTENDS Integers, Sequences, FiniteSets

\* ---------------------------------------------------------------- bounds
\* Longest list handed to a sort function.
MaxLen == 4
\* Keys of the elements handed to a sort function are 1..MaxKey.
MaxKey == 3

\* Longest list the comparison driver generates (a size of list_sizes).
MaxSize == 3
\* Longest list_sizes.
MaxSizes == 2
\* Largest repeats.
MaxRepeats == 2
\* Seeds are 0..MaxSeed.
MaxSeed == 1
\* Longest curve (values, reference) handed to the curve scaler.
MaxCurve == 2
\* Bits of the significand of a floating-point number of the model (the
\* program's floats have 53).
Precision == 4

\* ------------------------------------------------------------- variables
VARIABLES
    heap,       \* the list objects: heap[r] is the content of the list r
    pc,         \* where the program is
    \* a sort function called on its own
    before,     \* the heap as it was when the function under test was called
    args,       \* the references passed to the function under test
    ret,        \* the reference the function under test returned
    \* compare_sorting_algorithms and benchmark
    list_sizes, \* parameter list_sizes
    repeats,    \* parameter repeats
    seed,       \* parameter seed
    value_range,\* parameter value_range, <<low, high>>
    call,       \* how many times compare_sorting_algorithms has been called
    rng,        \* the state of the generator rng
    results,    \* the list results
    size_index, \* the place of the for loop in list_sizes (from 1)
    base_data,  \* the reference base_data (0: not bound)
    size_result,\* the entries of the dictionary size_result evaluated so far
    algorithm,  \* which of the four benchmark calls is running (from 1)
    calls,      \* invocations made so far by the running timeit loop
    copy,       \* the reference data.copy() gave the invocation about to run
    elapsed,    \* what timeit returned
    generated,  \* the datasets this call has generated, as generated
    previous    \* the datasets the previous call generated

sortVars == <<before, args, ret>>
driverVars == <<list_sizes, repeats, seed, value_range, call, rng, results,
                size_index, base_data, size_result, algorithm, calls, copy,
                elapsed, generated, previous>>
vars == <<heap, pc, sortVars, driverVars>>

\* ------------------------------------------------------------ list values
\* The comparisons the sorts make: key < lst[j] and left[i] <= right[j].
Less(x, y) == x.key < y.key
LessEq(x, y) == x.key <= y.key

\* A list of fresh objects with the given keys; the id is the position.
MakeList(keys) == [i \in 1..Len(keys) |-> [key |-> keys[i], id |-> i]]

RECURSIVE SeqsUpTo(_, _)
\* All sequences over S of length at most n.
SeqsUpTo(S, n) ==
    IF n = 0 THEN {<<>>}
    ELSE LET shorter == SeqsUpTo(S, n - 1)
         IN  shorter \cup {Append(s, x) : s \in {t \in shorter : Len(t) = n - 1}, x \in S}

\* ------------------------------------------------------------ heap helpers
\* merged = [] : a new empty list object.
list_new(h) == [heap |-> Append(h, <<>>), ret |-> Len(h) + 1]

\* merged.append(x)
list_append(h, lst, x) == [h EXCEPT ![lst] = Append(@, x)]

\* arr[lo:hi] with 0-based lo (inclusive) and hi (exclusive): a new list.
list_slice(h, lst, lo, hi) ==
    [heap |-> Append(h, SubSeq(h[lst], lo + 1, hi)), ret |-> Len(h) + 1]

\* ---------------------------------------------------------- insertion_sort
RECURSIVE insertion_while_no_first(_, _, _, _)
\* insertion_while with the bound of the scan off by one (j > 0): the first
\* slot of the list is never compared.
insertion_while_no_first(h, lst, j, key) ==
    IF j > 0 /\ Less(key, h[lst][j + 1])
    THEN insertion_while_no_first([h EXCEPT ![lst][j + 2] = h[lst][j + 1]], lst, j - 1, key)
    ELSE [h EXCEPT ![lst][j + 2] = key]

RECURSIVE insertion_while(_, _, _, _)
\* while j >= 0 and key < lst[j]: lst[j + 1] = lst[j]; j -= 1
\* followed by lst[j + 1] = key.  j is 0-based as in the code.
insertion_while(h, lst, j, key) ==
    IF j >= 0 /\ Less(key, h[lst][j + 1])
    THEN insertion_while([h EXCEPT ![lst][j + 2] = h[lst][j + 1]], lst, j - 1, key)
    ELSE [h EXCEPT ![lst][j + 2] = key]

RECURSIVE insertion_for(_, _, _)
\* for i in range(1, len(lst)): key = lst[i]; j = i - 1; ...
insertion_for(h, lst, i) ==
    IF i < Len(h[lst])
    THEN insertion_for(insertion_while(h, lst, i - 1, h[lst][i + 1]), lst, i + 1)
    ELSE h

insertion_sort(h, lst) == [heap |-> insertion_for(h, lst, 1), ret |-> lst]

\* ------------------------------------------------------------------ merge
RECURSIVE merge_main_right_on_tie(_, _, _, _, _, _)
\* merge_main comparing with < instead of <=: on a tie the right head goes first.
merge_main_right_on_tie(h, left, right, merged, left_index, right_index) ==
    IF left_index < Len(h[left]) /\ right_index < Len(h[right])
    THEN IF Less(h[left][left_index + 1], h[right][right_index + 1])
         THEN merge_main_right_on_tie(list_append(h, merged, h[left][left_index + 1]),
                                      left, right, merged, left_index + 1, right_index)
         ELSE merge_main_right_on_tie(list_append(h, merged, h[right][right_index + 1]),
                                      left, right, merged, left_index, right_index + 1)
    ELSE [heap |-> h, left_index |-> left_index, right_index |-> right_index]

RECURSIVE merge_main(_, _, _, _, _, _)
\* The first loop: while both sides have elements, take the smaller head,
\* the left one on a tie.  Gives the heap and both indices at the exit.
merge_main(h, left, right, merged, left_index, right_index) ==
    IF left_index < Len(h[left]) /\ right_index < Len(h[right])
    THEN IF LessEq(h[left][left_index + 1], h[right][right_index + 1])
         THEN merge_main(list_append(h, merged, h[left][left_index + 1]),
                         left, right, merged, left_index + 1, right_index)
         ELSE merge_main(list_append(h, merged, h[right][right_index + 1]),
                         left, right, merged, left_index, right_index + 1)
    ELSE [heap |-> h, left_index |-> left_index, right_index |-> right_index]

\* merge_rest that forgets the remainder of a side.
merge_rest_dropped(h, side, merged, index) == h

RECURSIVE merge_rest(_, _, _, _)
\* while index < len(side): merged.append(side[index]); index += 1
merge_rest(h, side, merged, index) ==
    IF index < Len(h[side])
    THEN merge_rest(list_append(h, merged, h[side][index + 1]), side, merged, index + 1)
    ELSE h

\* merge written with pop(0): the same result, but both inputs are emptied.
merge_consuming(h, left, right) ==
    LET new == list_new(h)
        merged == new.ret
        main == merge_main(new.heap, left, right, merged, 0, 0)
        h1 == merge_rest(main.heap, left, merged, main.left_index)
        h2 == merge_rest(h1, right, merged, main.right_index)
    IN  [heap |-> [r \in 1..Len(h2) |-> IF r \in {left, right} THEN <<>> ELSE h2[r]],
         ret |-> merged]

merge(h, left, right) ==
    LET new == list_new(h)
        merged == new.ret
        main == merge_main(new.heap, left, right, merged, 0, 0)
        h1 == merge_rest(main.heap, left, merged, main.left_index)
        h2 == merge_rest(h1, right, merged, main.right_index)
    IN  [heap |-> h2, ret |-> merged]

\* -------------------------------------------------------------- merge_sort
RECURSIVE merge_sort_in_place(_, _)
\* merge_sort that writes the merged result back into its argument
\* (arr[:] = merge(...); return arr).
merge_sort_in_place(h, arr) ==
    IF Len(h[arr]) <= 1
    THEN [heap |-> h, ret |-> arr]
    ELSE LET mid == Len(h[arr]) \div 2
             left_half == list_slice(h, arr, 0, mid)
             right_half == list_slice(left_half.heap, arr, mid, Len(h[arr]))
             sorted_left == merge_sort_in_place(right_half.heap, left_half.ret)
             sorted_right == merge_sort_in_place(sorted_left.heap, right_half.ret)
             m == merge(sorted_right.heap, sorted_left.ret, sorted_right.ret)
         IN  [heap |-> [m.heap EXCEPT ![arr] = m.heap[m.ret]], ret |-> arr]

RECURSIVE merge_sort(_, _)
merge_sort(h, arr) ==
    IF Len(h[arr]) <= 1
    THEN [heap |-> h, ret |-> arr]
    ELSE LET mid == Len(h[arr]) \div 2
             left_half == list_slice(h, arr, 0, mid)
             right_half == list_slice(left_half.heap, arr, mid, Len(h[arr]))
             sorted_left == merge_sort(right_half.heap, left_half.ret)
             sorted_right == merge_sort(sorted_left.heap, right_half.ret)
         IN  merge(sorted_right.heap, sorted_left.ret, sorted_right.ret)

\* ------------------------------------------- the sort functions under test
\* compare_sorting_algorithms is not running.
DriverIdle ==
    /\ list_sizes = <<>>
    /\ repeats = 0
    /\ seed = 0
    /\ value_range = <<0, 0>>
    /\ call = 0
    /\ rng = 0
    /\ results = <<>>
    /\ size_index = 0
    /\ base_data = 0
    /\ size_result = <<>>
    /\ algorithm = 0
    /\ calls = 0
    /\ copy = 0
    /\ elapsed = 0
    /\ generated = <<>>
    /\ previous = <<>>

\* One list of at most MaxLen elements with keys in 1..MaxKey is on the heap.
SortInit ==
    /\ heap \in {<<MakeList(keys)>> : keys \in SeqsUpTo(1..MaxKey, MaxLen)}
    /\ pc = "ready"
    /\ before = heap
    /\ args = <<>>
    /\ ret = 0
    /\ DriverIdle

\* insertion_sort(lst) on the list of the heap.
CallInsertionSort ==
    /\ pc = "ready"
    /\ LET r == insertion_sort(heap, 1)
       IN  /\ heap' = r.heap
           /\ ret' = r.ret
    /\ args' = <<1>>
    /\ pc' = "insertion_sort"
    /\ UNCHANGED <<before, driverVars>>

\* merge_sort(arr) on the list of the heap.
CallMergeSort ==
    /\ pc = "ready"
    /\ LET r == merge_sort(heap, 1)
       IN  /\ heap' = r.heap
           /\ ret' = r.ret
    /\ args' = <<1>>
    /\ pc' = "merge_sort"
    /\ UNCHANGED <<before, driverVars>>

\* merge(left, right) where left and right are the list of the heap cut in
\* two at any place k (so every pair of lists of total length <= MaxLen
\* occurs, sorted or not; the ids of left are below those of right).
CallMerge ==
    /\ pc = "ready"
    /\ \E k \in 0..Len(heap[1]) :
         LET left == list_slice(heap, 1, 0, k)
             right == list_slice(left.heap, 1, k, Len(heap[1]))
             r == merge(right.heap, left.ret, right.ret)
         IN  /\ before' = right.heap
             /\ args' = <<left.ret, right.ret>>
             /\ heap' = r.heap
             /\ ret' = r.ret
    /\ pc' = "merge"
    /\ UNCHANGED driverVars

SortNext == CallInsertionSort \/ CallMergeSort \/ CallMerge

SpecSort == SortInit /\ [][SortNext]_vars

\* ------------------------------------------------- properties of the sorts
IsSorted(s) == \A i \in 1..Len(s) - 1 : s[i].key <= s[i + 1].key

Count(s, x) == Cardinality({i \in 1..Len(s) : s[i] = x})
Elements(s) == {s[i] : i \in 1..Len(s)}
SameMultiset(s, t) ==
    \A x \in Elements(s) \cup Elements(t) : Count(s, x) = Count(t, x)

\* The ids of a list under test are the positions of its elements before the
\* call, so equal elements are in their input order when their ids ascend.
IsStable(s) ==
    \A p, q \in 1..Len(s) : (p < q /\ s[p].key = s[q].key) => s[p].id < s[q].id

\* The lists that existed at the call are what they were.
Untouched(refs) == \A r \in refs : heap[r] = before[r]

\* C1: insertion_sort(lst) returns the very list it was given, and that list
\* now is in non-decreasing order with the length and the multiset of
\* elements it had before the call; no other list is made or changed.
C1_InsertionSortSortsInPlace ==
    pc = "insertion_sort" =>
        /\ ret = args[1]
        /\ Len(heap) = Len(before)
        /\ IsSorted(heap[ret])
        /\ Len(heap[ret]) = Len(before[args[1]])
        /\ SameMultiset(heap[ret], before[args[1]])

\* insertion_sort has rearranged a list of MaxLen elements that was not sorted.
C1_Witness ==
    /\ pc = "insertion_sort"
    /\ Len(before[1]) = MaxLen
    /\ ~IsSorted(before[1])
    /\ \E i \in 1..MaxLen - 1 : before[1][i].key = before[1][i + 1].key
    /\ heap[ret] # before[1]

\* C2: merge_sort(arr) returns a list in non-decreasing order with the length
\* and the multiset of elements of arr, the empty and the one-element list
\* included.
C2_MergeSortSorts ==
    pc = "merge_sort" =>
        /\ IsSorted(heap[ret])
        /\ Len(heap[ret]) = Len(before[args[1]])
        /\ SameMultiset(heap[ret], before[args[1]])

\* merge_sort has sorted an unsorted list of at least three elements (so that
\* it recursed twice and merged lists of unequal lengths).
C2_Witness ==
    /\ pc = "merge_sort"
    /\ Len(before[1]) >= 3
    /\ ~IsSorted(before[1])
    /\ before[1][1].key > before[1][Len(before[1])].key

\* C3: insertion_sort and merge_sort are stable: elements with equal keys are
\* in the result in the order they had in the input.
C3_SortsAreStable ==
    pc \in {"insertion_sort", "merge_sort"} => IsStable(heap[ret])

\* merge_sort has sorted a list in which two equal elements were apart, with
\* a smaller element after them and a larger one between them.
C3_Witness ==
    /\ pc = "merge_sort"
    /\ Len(before[1]) = MaxLen
    /\ \E i, j, k \in 1..MaxLen :
          /\ i < j /\ j < k
          /\ before[1][i].key = before[1][k].key
          /\ before[1][j].key # before[1][i].key
    /\ ~IsSorted(before[1])

\* C4: merge_sort does not change its input: after the call arr holds the
\* elements it held, in the same order.
C4_MergeSortKeepsInput ==
    pc = "merge_sort" => Untouched(1..Len(before))

\* merge_sort has returned a new list that differs from its unsorted input.
C4_Witness ==
    /\ pc = "merge_sort"
    /\ ret # args[1]
    /\ heap[ret] # heap[args[1]]
    /\ Len(heap[args[1]]) = MaxLen

\* Where x is in s (the ids of a list under test are distinct).
PosOf(s, x) == CHOOSE i \in 1..Len(s) : s[i] = x
Last(s) == s[Len(s)]

\* The elements of out that come from one side are that side, in its order.
OrderKept(out, left, right) ==
    LET FromLeft(x) == x \in Elements(left)
        FromRight(x) == x \in Elements(right)
    IN  /\ SelectSeq(out, FromLeft) = left
        /\ SelectSeq(out, FromRight) = right

\* From the place where one side is used up, out is the rest of the other side.
RemainderAppended(out, left, right) ==
    (left # <<>> /\ right # <<>>) =>
        LET endLeft == PosOf(out, Last(left))
            endRight == PosOf(out, Last(right))
            p == IF endLeft < endRight THEN endLeft ELSE endRight
            other == IF endLeft < endRight THEN right ELSE left
            n == Len(out) - p
        IN  SubSeq(out, p + 1, Len(out)) = SubSeq(other, Len(other) - n + 1, Len(other))

\* C10: for left and right both in non-decreasing order, merge(left, right)
\* returns a non-decreasing list of len(left) + len(right) elements, the
\* multiset union of both, leaves left and right as they were, and appends
\* what remains of one side, once the other is used up, in its order.
C10_MergeOfSorted ==
    (pc = "merge" /\ IsSorted(before[args[1]]) /\ IsSorted(before[args[2]])) =>
        LET left == before[args[1]]
            right == before[args[2]]
            out == heap[ret]
        IN  /\ IsSorted(out)
            /\ Len(out) = Len(left) + Len(right)
            /\ SameMultiset(out, left \o right)
            /\ Untouched(1..Len(before))
            /\ ret \notin 1..Len(before)
            /\ OrderKept(out, left, right)
            /\ RemainderAppended(out, left, right)

\* merge has interleaved two sorted lists, and the side that was left over
\* had at least two elements remaining.
C10_Witness ==
    /\ pc = "merge"
    /\ IsSorted(before[args[1]]) /\ IsSorted(before[args[2]])
    /\ Len(before[args[1]]) >= 1 /\ Len(before[args[2]]) >= 2
    /\ heap[ret] # before[args[1]] \o before[args[2]]
    /\ heap[ret] # before[args[2]] \o before[args[1]]
    /\ LET out == heap[ret]
       IN  /\ out[Len(out)] = Last(before[args[2]])
           /\ out[Len(out) - 1] = before[args[2]][Len(before[args[2]]) - 1]

\* ---------------------------------------------------- the reference sorts
RECURSIVE sorted_of(_)
\* The elements of the set S in the order of the built-in sort: ascending
\* keys, equal keys in the order of their ids (the built-in sort is stable,
\* and the ids of a generated list are its positions).
sorted_of(S) ==
    IF S = {} THEN <<>>
    ELSE LET first == CHOOSE x \in S :
                        \A y \in S : x.key < y.key \/ (x.key = y.key /\ x.id <= y.id)
         IN  <<first>> \o sorted_of(S \ {first})

\* lst.sort(); return lst
python_sort(h, lst) ==
    [heap |-> [h EXCEPT ![lst] = sorted_of({h[lst][i] : i \in 1..Len(h[lst])})],
     ret |-> lst]

\* return sorted(lst)
python_sorted(h, lst) ==
    [heap |-> Append(h, sorted_of({h[lst][i] : i \in 1..Len(h[lst])})),
     ret |-> Len(h) + 1]

\* -------------------------------------------------------------- benchmark
\* A mistaken data.copy(): the list itself is handed on.
list_alias(h, lst) == [heap |-> h, ret |-> lst]

\* data.copy(): a new list with the same elements.
list_copy(h, lst) == [heap |-> Append(h, h[lst]), ret |-> Len(h) + 1]

\* The four benchmark calls of compare_sorting_algorithms, in the order in
\* which the dictionary display evaluates them, by the key they are stored under.
Functions == <<"insertion_sort", "merge_sort", "list_sort", "sorted">>

\* function(data.copy()) for the function benchmarked under the given key.
Apply(name, h, lst) ==
    CASE name = "insertion_sort" -> insertion_sort(h, lst)
      [] name = "merge_sort" -> merge_sort(h, lst)
      [] name = "list_sort" -> python_sort(h, lst)
      [] name = "sorted" -> python_sorted(h, lst)

\* When an invocation returns, its argument and result are dropped: the
\* lists that are still referenced are those that existed before the copy.
Release(h, live) == SubSeq(h, 1, live)

\* ------------------------------------------------------------ the generator
\* The library's generator, as a deterministic state machine: a state in
\* 0..15, stepped by every draw.
rng_next(s) == (5 * s + 3) % 16

\* A generator that is not seeded: it goes on from the state of the last one.
Random_stale(x, stale) == stale

\* random.Random(x): a new generator whose state comes from x alone; stale,
\* the state an earlier generator was left in, plays no part.
Random(x, stale) == (7 * x + 1) % 16

\* rng.randint(a, b): one step of the generator and a value of a..b,
\* both bounds included.
randint(s, a, b) ==
    [rng |-> rng_next(s), value |-> a + ((rng_next(s) \div 2) % (b - a + 1))]

RECURSIVE draw(_, _, _, _)
\* [rng.randint(*value_range) for _ in range(size)], appended to keys.
draw(s, size, range, keys) ==
    IF size <= 0 THEN [rng |-> s, keys |-> keys]
    ELSE LET r == randint(s, range[1], range[2])
         IN  draw(r.rng, size - 1, range, Append(keys, r.value))

\* ----------------------------------------------- compare_sorting_algorithms
Seeds == 0..MaxSeed
ValueRanges == {<<0, 1>>, <<-1, 1>>, <<2, 2>>}

\* d[k] = v
dict_set(d, k, v) == [x \in DOMAIN d \cup {k} |-> IF x = k THEN v ELSE d[x]]

\* A mistaken results.append(size_result): an entry of the same size is replaced.
results_keyed_by_size(rs, entry) ==
    IF \E i \in 1..Len(rs) : rs[i]["size"] = entry["size"]
    THEN [i \in 1..Len(rs) |-> IF rs[i]["size"] = entry["size"] THEN entry ELSE rs[i]]
    ELSE Append(rs, entry)

\* results.append(size_result)
results_append(rs, entry) == Append(rs, entry)

\* The parameters are chosen once: both calls get the same list_sizes,
\* repeats, seed and value_range.  list_sizes is given (the default list of
\* line 87 takes its place when it is None, and is then a list like any
\* other), repeats is not negative, value_range is low <= high.
DriverInit ==
    /\ list_sizes \in SeqsUpTo(0..MaxSize, MaxSizes)
    /\ repeats \in 0..MaxRepeats
    /\ seed \in Seeds
    /\ value_range \in ValueRanges
    /\ call = 0
    /\ rng = 0
    /\ results = <<>>
    /\ size_index = 0
    /\ base_data = 0
    /\ size_result = <<>>
    /\ algorithm = 0
    /\ calls = 0
    /\ copy = 0
    /\ elapsed = 0
    /\ generated = <<>>
    /\ previous = <<>>
    /\ heap = <<>>
    /\ pc = "idle"
    /\ before = <<>>
    /\ args = <<>>
    /\ ret = 0

\* compare_sorting_algorithms is called (a first and a second time):
\* rng = random.Random(seed); results = [].
Call ==
    /\ pc \in {"idle", "returned"}
    /\ call < 2
    /\ call' = call + 1
    /\ rng' = Random(seed, rng)
    /\ results' = <<>>
    /\ size_index' = 1
    /\ previous' = generated
    /\ generated' = <<>>
    /\ heap' = <<>>
    /\ base_data' = 0
    /\ size_result' = <<>>
    /\ algorithm' = 0
    /\ calls' = 0
    /\ copy' = 0
    /\ elapsed' = 0
    /\ pc' = "for"
    /\ UNCHANGED <<list_sizes, repeats, seed, value_range, sortVars>>

\* for size in list_sizes: base_data = [rng.randint(...) ...]; the dictionary
\* display starts with "size": size and enters the first benchmark.
Generate ==
    /\ pc = "for"
    /\ size_index <= Len(list_sizes)
    /\ LET size == list_sizes[size_index]
           d == draw(rng, size, value_range, <<>>)
       IN  /\ rng' = d.rng
           /\ heap' = <<MakeList(d.keys)>>
           /\ generated' = Append(generated, MakeList(d.keys))
           /\ size_result' = [x \in {"size"} |-> size]
    /\ base_data' = 1
    /\ algorithm' = 1
    /\ calls' = 0
    /\ pc' = "timeit"
    /\ UNCHANGED <<list_sizes, repeats, seed, value_range, call, results,
                   size_index, copy, elapsed, previous, sortVars>>

\* One pass of timeit's loop begins: the lambda evaluates data.copy().
Copy ==
    /\ pc = "timeit"
    /\ calls < repeats
    /\ LET c == list_copy(heap, base_data)
       IN  /\ heap' = c.heap
           /\ copy' = c.ret
    /\ pc' = "invoke"
    /\ UNCHANGED <<list_sizes, repeats, seed, value_range, call, rng, results,
                   size_index, base_data, size_result, algorithm, calls,
                   elapsed, generated, previous, sortVars>>

\* The lambda calls function on the copy; its result is dropped.
Invoke ==
    /\ pc = "invoke"
    /\ heap' = Release(Apply(Functions[algorithm], heap, copy).heap, base_data)
    /\ calls' = calls + 1
    /\ copy' = 0
    /\ pc' = "timeit"
    /\ UNCHANGED <<list_sizes, repeats, seed, value_range, call, rng, results,
                   size_index, base_data, size_result, algorithm, elapsed,
                   generated, previous, sortVars>>

\* timeit's loop has run number = repeats times: benchmark returns the time
\* the loop took.  The clock of the model ticks once per invocation.
TimeitReturn ==
    /\ pc = "timeit"
    /\ ~(calls < repeats)
    /\ elapsed' = calls
    /\ pc' = "timed"
    /\ UNCHANGED <<heap, list_sizes, repeats, seed, value_range, call, rng,
                   results, size_index, base_data, size_result, algorithm,
                   calls, copy, generated, previous, sortVars>>

\* The time is the value of the algorithm's key; the next benchmark call of
\* the dictionary display follows, if there is one.
Record ==
    /\ pc = "timed"
    /\ size_result' = dict_set(size_result, Functions[algorithm], elapsed)
    /\ IF algorithm < Len(Functions)
       THEN /\ algorithm' = algorithm + 1
            /\ calls' = 0
            /\ pc' = "timeit"
       ELSE /\ UNCHANGED <<algorithm, calls>>
            /\ pc' = "append"
    /\ UNCHANGED <<heap, list_sizes, repeats, seed, value_range, call, rng,
                   results, size_index, base_data, copy, elapsed, generated,
                   previous, sortVars>>

\* results.append(size_result), and the for loop goes on.
AppendResult ==
    /\ pc = "append"
    /\ results' = results_append(results, size_result)
    /\ size_index' = size_index + 1
    /\ pc' = "for"
    /\ UNCHANGED <<heap, list_sizes, repeats, seed, value_range, call, rng,
                   base_data, size_result, algorithm, calls, copy, elapsed,
                   generated, previous, sortVars>>

\* list_sizes is used up: return results.
Return ==
    /\ pc = "for"
    /\ size_index > Len(list_sizes)
    /\ pc' = "returned"
    /\ UNCHANGED <<heap, list_sizes, repeats, seed, value_range, call, rng,
                   results, size_index, base_data, size_result, algorithm,
                   calls, copy, elapsed, generated, previous, sortVars>>

Next ==
    \/ Call
    \/ Generate
    \/ Copy
    \/ Invoke
    \/ TimeitReturn
    \/ Record
    \/ AppendResult
    \/ Return

Spec == DriverInit /\ [][Next]_vars

\* --------------------------------------------- properties of the benchmark
\* The dataset of the size being benchmarked, as it was generated.
Dataset == generated[Len(generated)]

\* C5: benchmark never changes data: every invocation gets a new list whose
\* elements are those of data, timeit invokes function repeats times, and when
\* benchmark returns data is, element for element, what it was.
C5_BenchmarkKeepsData ==
    /\ pc = "invoke" =>
          /\ copy # base_data
          /\ copy = Len(heap)
          /\ heap[copy] = Dataset
          /\ heap[base_data] = Dataset
    /\ pc = "timed" =>
          /\ calls = repeats
          /\ heap = <<Dataset>>

\* benchmark returns from MaxRepeats invocations of the in-place
\* insertion_sort on an unsorted dataset.
C5_Witness ==
    /\ pc = "timed"
    /\ Functions[algorithm] = "insertion_sort"
    /\ repeats = MaxRepeats
    /\ ~IsSorted(Dataset)

\* C6: for each size base_data is generated once, and it is unchanged from
\* then to the end of the fourth benchmark; the benchmarks run in the order
\* insertion_sort, merge_sort, python_sort, python_sorted, each invocation on
\* the elements of base_data as generated.
C6_SameDataForAllFour ==
    pc \in {"timeit", "invoke", "timed", "append"} =>
        /\ Len(generated) = size_index
        /\ Len(Dataset) = list_sizes[size_index]
        /\ heap[base_data] = Dataset
        /\ pc = "invoke" => heap[copy] = Dataset
        /\ DOMAIN size_result =
              {"size"} \cup {Functions[i] : i \in 1..(IF pc = "append" THEN 4 ELSE algorithm - 1)}

\* All four benchmarks of an unsorted dataset are done, the in-place sorts
\* each invoked more than once.
C6_Witness ==
    /\ pc = "append"
    /\ repeats >= 2
    /\ ~IsSorted(Dataset)

RECURSIVE Skip(_, _)
\* The state of the generator n draws after s.
Skip(s, n) == IF n = 0 THEN s ELSE Skip(rng_next(s), n - 1)

RECURSIVE Sum(_)
Sum(s) == IF s = <<>> THEN 0 ELSE s[1] + Sum(Tail(s))

IsPrefix(s, t) == Len(s) <= Len(t) /\ s = SubSeq(t, 1, Len(s))

\* C7: the second call, with the same seed, list_sizes and value_range,
\* generates the datasets of the first, position by position; the generator
\* is seeded at the start of a call and runs on from size to size; every
\* value drawn is within value_range, bounds included.
C7_DatasetsRepeat ==
    /\ call = 2 => IsPrefix(generated, previous)
    /\ (call = 2 /\ pc = "returned") => generated = previous
    /\ pc = "returned" => Len(generated) = Len(list_sizes)
    /\ pc = "for" =>
          rng = Skip(Random(seed, 0), Sum(SubSeq(list_sizes, 1, size_index - 1)))
    /\ \A k \in 1..Len(generated) : \A i \in 1..Len(generated[k]) :
          /\ value_range[1] <= generated[k][i].key
          /\ generated[k][i].key <= value_range[2]

\* The second call has returned after generating two datasets that differ
\* from each other, with both bounds of value_range drawn.
C7_Witness ==
    /\ call = 2
    /\ pc = "returned"
    /\ Len(generated) = 2
    /\ Len(generated[1]) = Len(generated[2])
    /\ generated[1] # generated[2]
    /\ value_range[1] < value_range[2]
    /\ \E k \in 1..2 : \E i \in 1..Len(generated[k]) :
          generated[k][i].key = value_range[1]
    /\ \E k \in 1..2 : \E i \in 1..Len(generated[k]) :
          generated[k][i].key = value_range[2]

\* C8: compare_sorting_algorithms returns one entry per element of
\* list_sizes, in the order of list_sizes; the k-th entry has the k-th size
\* and a time for each of insertion_sort, merge_sort, list_sort and sorted.
C8_OneEntryPerSize ==
    pc = "returned" =>
        /\ Len(results) = Len(list_sizes)
        /\ \A k \in 1..Len(results) :
              /\ DOMAIN results[k] =
                    {"size", "insertion_sort", "merge_sort", "list_sort", "sorted"}
              /\ results[k]["size"] = list_sizes[k]
              /\ \A name \in DOMAIN results[k] \ {"size"} : results[k][name] >= 0

\* A call has returned for a list_sizes that is not ascending.
C8_Witness ==
    /\ pc = "returned"
    /\ Len(list_sizes) = MaxSizes
    /\ list_sizes[1] > list_sizes[2]
    /\ Len(results) = MaxSizes

\* A call has returned for a list_sizes that names a size twice.
C8_WitnessRepeated ==
    /\ pc = "returned"
    /\ Len(list_sizes) >= 2
    /\ list_sizes[1] = list_sizes[2]
    /\ results[1] = results[2]

\* ------------------------------------------------- floating-point numbers
\* A float is m * 2^e with a significand m of exactly Precision bits
\* (2^(Precision-1) <= m < 2^Precision), or zero (m = 0, e = 0).  Every
\* operation gives the float nearest to the exact result, ties to the even
\* significand, as the program's arithmetic does.  Exponents are not bounded:
\* no overflow, no underflow.  Only numbers >= 0 occur.
RECURSIVE Pow2(_)
Pow2(n) == IF n = 0 THEN 1 ELSE 2 * Pow2(n - 1)

Zero == [m |-> 0, e |-> 0]

RECURSIVE normalize(_, _, _)
\* num / den * 2^e (num > 0) rewritten so that num / den has Precision bits
\* before the point.
normalize(num, den, e) ==
    IF num >= den * Pow2(Precision) THEN normalize(num, 2 * den, e + 1)
    ELSE IF num < den * Pow2(Precision - 1) THEN normalize(2 * num, den, e - 1)
    ELSE [num |-> num, den |-> den, e |-> e]

\* The float nearest to num / den * 2^e.
fl_round(num, den, e) ==
    IF num = 0 THEN Zero
    ELSE LET n == normalize(num, den, e)
             q == n.num \div n.den
             r == n.num % n.den
             up == 2 * r > n.den \/ (2 * r = n.den /\ q % 2 = 1)
             m == IF up THEN q + 1 ELSE q
         IN  IF m = Pow2(Precision)
             THEN [m |-> Pow2(Precision - 1), e |-> n.e + 1]
             ELSE [m |-> m, e |-> n.e]

\* x / y: raises ZeroDivisionError for y = 0.
true_div(x, y) ==
    IF y.m = 0 THEN [error |-> "ZeroDivisionError", value |-> Zero]
    ELSE [error |-> "none",
          value |-> IF x.e >= y.e
                    THEN fl_round(x.m * Pow2(x.e - y.e), y.m, 0)
                    ELSE fl_round(x.m, y.m * Pow2(y.e - x.e), 0)]

\* x * y
float_mul(x, y) == fl_round(x.m * y.m, 1, x.e + y.e)

\* --------------------------------------------------- _scale_theoretical_curve
\* The factor taken the wrong way round: values[-1] / reference[-1].
scale_factor_inverted(values_last, reference_last) == true_div(values_last, reference_last)

\* factor = reference[-1] / values[-1]
scale_factor(values_last, reference_last) == true_div(reference_last, values_last)

\* if not values or not reference or values[-1] == 0
scale_guard(h, values, reference) ==
    \/ h[values] = <<>>
    \/ h[reference] = <<>>
    \/ h[values][Len(h[values])].m = 0

scale_theoretical_curve(h, values, reference) ==
    IF scale_guard(h, values, reference)
    THEN [heap |-> h, ret |-> values, error |-> "none"]
    ELSE LET factor == scale_factor(h[values][Len(h[values])],
                                    h[reference][Len(h[reference])])
         IN  IF factor.error # "none"
             THEN [heap |-> h, ret |-> 0, error |-> factor.error]
             ELSE [heap |-> Append(h, [i \in 1..Len(h[values]) |->
                                          float_mul(h[values][i], factor.value)]),
                   ret |-> Len(h) + 1,
                   error |-> "none"]

\* The numbers of the curves: 0, 1/2, 1, 3, 7, 13, as floats.
Numbers == {fl_round(n[1], n[2], 0) :
               n \in {<<0, 1>>, <<1, 2>>, <<1, 1>>, <<3, 1>>, <<7, 1>>, <<13, 1>>}}

\* The lists values and reference are on the heap, of any lengths up to MaxCurve.
ScaleInit ==
    /\ heap \in {<<v, r>> : v \in SeqsUpTo(Numbers, MaxCurve),
                            r \in SeqsUpTo(Numbers, MaxCurve)}
    /\ pc = "ready"
    /\ before = heap
    /\ args = <<1, 2>>
    /\ ret = 0
    /\ DriverIdle

\* _scale_theoretical_curve(values, reference)
CallScale ==
    /\ pc = "ready"
    /\ LET r == scale_theoretical_curve(heap, args[1], args[2])
       IN  /\ heap' = r.heap
           /\ ret' = r.ret
           /\ pc' = IF r.error = "none" THEN "scaled" ELSE r.error
    /\ UNCHANGED <<before, args, driverVars>>

ScaleNext == CallScale

SpecScale == ScaleInit /\ [][ScaleNext]_vars

\* -------------------------------------------- properties of the curve scaler
\* |x - y| <= y * (2u + u^2) for u = 2^-Precision: x is y but for the two
\* roundings of a quotient and a product.
WithinTwoRoundings(x, y) ==
    LET low == IF x.e < y.e THEN x.e ELSE y.e
        a == x.m * Pow2(x.e - low)
        b == y.m * Pow2(y.e - low)
        d == IF a < b THEN b - a ELSE a - b
    IN  d * Pow2(2 * Precision) <= b * (Pow2(Precision + 1) + 1)

\* The call returned a scaled curve: neither list was empty and values[-1]
\* was not zero.
ScaledByFactor ==
    /\ pc = "scaled"
    /\ before[args[1]] # <<>>
    /\ before[args[2]] # <<>>
    /\ Last(before[args[1]]) # Zero

\* What C9 says of every call but for the last element of the result.
ScaleContract ==
    /\ pc # "ZeroDivisionError"
    /\ pc = "scaled" => Untouched({args[1], args[2]})
    /\ (pc = "scaled" /\ ~ScaledByFactor) => ret = args[1]
    /\ ScaledByFactor =>
          LET values == before[args[1]]
              factor == true_div(Last(before[args[2]]), Last(values)).value
          IN  /\ ret \notin {args[1], args[2]}
              /\ Len(heap[ret]) = Len(values)
              /\ \A i \in 1..Len(values) : heap[ret][i] = float_mul(values[i], factor)

\* C9 as stated: _scale_theoretical_curve returns values itself when values
\* or reference is empty or values[-1] is zero, and never divides by zero;
\* otherwise it returns a list of the same length, every element of values
\* times the one factor reference[-1] / values[-1], whose last element equals
\* reference[-1].
C9_LastEqualsReference ==
    /\ ScaleContract
    /\ ScaledByFactor => Last(heap[ret]) = Last(before[args[2]])

\* C9 amended: as stated, but the last element of the result is reference[-1]
\* only up to the rounding of the quotient and of the product.
C9_LastNearReference ==
    /\ ScaleContract
    /\ ScaledByFactor => WithinTwoRoundings(Last(heap[ret]), Last(before[args[2]]))

\* A curve has been scaled by a factor that is not a float exactly, and its
\* last element is not reference[-1].
C9_Witness ==
    /\ pc = "scaled"
    /\ ret # args[1]
    /\ Len(before[args[1]]) = MaxCurve
    /\ Last(heap[ret]) # Last(before[args[2]])
    /\ WithinTwoRoundings(Last(heap[ret]), Last(before[args[2]]))

\* values has been returned as it is because its last element is zero.
C9_WitnessGuard ==
    /\ pc = "scaled"
    /\ ret = args[1]
    /\ before[args[1]] # <<>> /\ before[args[2]] # <<>>
    /\ Last(before[args[1]]) = Zero

====
